---- MODULE Spec2Model ----
(***************************************************************************)
(* A model of src/plot.py: one chart builder (Plot and its five subclasses *)
(* LinePlot, BarPlot, ScatterPlot, Histogram, Heatmap), the dataset it     *)
(* holds, its title / label fields and the matplotlib axis it draws on.    *)
(*                                                                         *)
(* Python values are modelled as follows.                                  *)
(*   - None is the reserved string None; the empty string "" is the other  *)
(*     falsy label value.                                                  *)
(*   - An exception is the name of its Python class in `result`; a call    *)
(*     that returns self leaves "self" there.                              *)
(*   - Floats are IEEE-754 doubles, computed with their rounding (see the  *)
(*     float arithmetic below).                                            *)
(*   - A dataset is its ordered column names and its row count; a column   *)
(*     is numeric or not by its name (IsNumeric).                          *)
(*   - The axis is the sequence of artists drawn on it, its ticks, tick    *)
(*     labels, legend, title and axis labels.                              *)
(***************************************************************************)
EXTENDS Integers, Sequences, FiniteSets

VARIABLES
    kind,           \* the subclass of the builder: which plot() it has
    built,          \* "new" before __init__, "built" after it, "failed" if it raised
    data,           \* self.data
    title,          \* self.title
    x_label,        \* self.x_label
    y_label,        \* self.y_label
    color_scheme,   \* self.color_scheme
    fig,            \* self.fig, self.ax: 0 before plt.subplots, 1 once allocated
    axTitle,        \* the axis title on the rendering surface
    axXLabel,       \* the x-axis label on the rendering surface
    axYLabel,       \* the y-axis label on the rendering surface
    axArtists,      \* the artists drawn on the axis, in drawing order
    axXTicks,       \* x tick positions set by set_xticks
    axXTickLabels,  \* x tick labels set by set_xticklabels
    axYTicks,       \* y tick positions set by set_yticks
    axYTickLabels,  \* y tick labels set by set_yticklabels
    axLegend,       \* the legend entries written by the last ax.legend()
    colorbars,      \* number of colorbars added to the figure
    layouts,        \* number of plt.tight_layout() calls made by show()
    files,          \* the paths savefig has written
    call,           \* the last call made on the builder, with its arguments
    result,         \* what the last call returned or raised
    ncalls          \* number of calls made after construction

vars == <<kind, built, data, title, x_label, y_label, color_scheme, fig,
          axTitle, axXLabel, axYLabel, axArtists, axXTicks, axXTickLabels,
          axYTicks, axYTickLabels, axLegend, colorbars, layouts, files,
          call, result, ncalls>>

specFields == <<kind, built, data, title, x_label, y_label, color_scheme, fig>>
axLabels == <<axTitle, axXLabel, axYLabel>>
axDrawn == <<axArtists, axXTicks, axXTickLabels, axYTicks, axYTickLabels,
             axLegend, colorbars>>

(***************************************************************************)
(* Bounds of the model.                                                    *)
(***************************************************************************)
MaxCols == 3        \* columns of the largest dataset
MaxRows == 2        \* rows of the largest dataset
MaxYCols == 2       \* longest y_cols list passed to a draw
MaxCalls == 2       \* calls made on a builder after construction

(***************************************************************************)
(* Python values.                                                          *)
(***************************************************************************)
None == "None"

Truthy(s) == s # None /\ s # ""

\* Python's `a or b` on labels
Or(a, b) == IF Truthy(a) THEN a ELSE b

Kinds == {"line", "bar", "scatter", "hist", "heatmap"}

(***************************************************************************)
(* IEEE-754 binary64 arithmetic for the bar geometry.                      *)
(*                                                                         *)
(* A float is [neg, mant, exp], of value (-1)^neg * mant * 2^exp: mant is  *)
(* a natural number of exactly 53 bits (2^52 <= mant < 2^53), written as   *)
(* four limbs of 15 bits, least significant first; zero is mant = 0 with   *)
(* exp = 0 and neg = FALSE.  Every operation computes its exact result on  *)
(* numbers of eight limbs and rounds it to 53 bits, ties to even, as the   *)
(* hardware does.  Ints are below 2^30 in magnitude.  The exponent is not  *)
(* bounded: overflow, subnormals, infinities and NaN are not modelled, and *)
(* no width, offset or position computed from ints and 0.8 reaches them;   *)
(* -0.0 is 0.0, to which it compares equal.                                *)
(***************************************************************************)
Limb == 2^15

Abs(n) == IF n < 0 THEN -n ELSE n

\* numbers of eight limbs, least significant first
WideZero == [j \in 1..8 |-> 0]

\* carries (or borrows) moved up so that every limb is in 0..Limb-1
WideCarry(t) ==
    LET v1 == t[1]
        v2 == t[2] + (v1 \div Limb)
        v3 == t[3] + (v2 \div Limb)
        v4 == t[4] + (v3 \div Limb)
        v5 == t[5] + (v4 \div Limb)
        v6 == t[6] + (v5 \div Limb)
        v7 == t[7] + (v6 \div Limb)
        v8 == t[8] + (v7 \div Limb)
    IN  <<v1 % Limb, v2 % Limb, v3 % Limb, v4 % Limb,
          v5 % Limb, v6 % Limb, v7 % Limb, v8 % Limb>>

WideAdd(a, b) == WideCarry([j \in 1..8 |-> a[j] + b[j]])

\* a - b for a >= b
WideSub(a, b) == WideCarry([j \in 1..8 |-> a[j] - b[j]])

WideLess(a, b) ==
    \E j \in 1..8 : a[j] < b[j] /\ \A i \in (j + 1)..8 : a[i] = b[i]

\* the number of an int k >= 0
WideOfInt(k) == <<k % Limb, (k \div Limb) % Limb, k \div (Limb * Limb), 0, 0, 0, 0, 0>>

\* the number of a mantissa of four limbs
Widen(m) == <<m[1], m[2], m[3], m[4], 0, 0, 0, 0>>

RECURSIVE BitLen(_)
BitLen(x) == IF x = 0 THEN 0 ELSE 1 + BitLen(x \div 2)

\* number of significant bits
WideBits(a) ==
    CASE a[8] # 0 -> 105 + BitLen(a[8])
      [] a[7] # 0 -> 90 + BitLen(a[7])
      [] a[6] # 0 -> 75 + BitLen(a[6])
      [] a[5] # 0 -> 60 + BitLen(a[5])
      [] a[4] # 0 -> 45 + BitLen(a[4])
      [] a[3] # 0 -> 30 + BitLen(a[3])
      [] a[2] # 0 -> 15 + BitLen(a[2])
      [] OTHER -> BitLen(a[1])

\* bit i of a, bit 0 the least significant
WideBit(a, i) == (a[(i \div 15) + 1] \div 2^(i % 15)) % 2

\* a * 2^s
WideShiftLeft(a, s) ==
    LET k == s \div 15
        p == 2^(s % 15)
        q == 2^(15 - (s % 15))
    IN  [j \in 1..8 |-> (IF j - k >= 1 THEN (a[j - k] * p) % Limb ELSE 0)
                         + (IF j - k >= 2 THEN a[j - k - 1] \div q ELSE 0)]

\* a div 2^s
WideShiftRight(a, s) ==
    LET k == s \div 15
        p == 2^(s % 15)
        q == 2^(15 - (s % 15))
    IN  [j \in 1..8 |-> (IF j + k <= 8 THEN a[j + k] \div p ELSE 0)
                         + (IF j + k <= 7 THEN (a[j + k + 1] % p) * q ELSE 0)]

\* a mod 2^s # 0
WideLowBits(a, s) ==
    \/ \E j \in 1..(s \div 15) : a[j] # 0
    \/ a[(s \div 15) + 1] % 2^(s % 15) # 0

\* a * c for an int 0 <= c < 2^30
WideMulInt(a, c) ==
    LET lo == WideCarry([j \in 1..8 |-> a[j] * (c % Limb)])
    IN  IF c < Limb THEN lo
        ELSE WideAdd(lo, WideShiftLeft(WideCarry([j \in 1..8 |-> a[j] * (c \div Limb)]), 15))

\* long division of the bits i, i-1, .. 0 of the limb x by an int
\* 0 < n <= 2^30, with quotient q and remainder r < n so far
RECURSIVE LimbDivFrom(_, _, _, _, _)
LimbDivFrom(x, n, i, q, r) ==
    IF i < 0 THEN <<q, r>>
    ELSE LET r2 == 2 * r + ((x \div 2^i) % 2)
         IN  IF r2 >= n THEN LimbDivFrom(x, n, i - 1, 2 * q + 1, r2 - n)
             ELSE LimbDivFrom(x, n, i - 1, 2 * q, r2)

\* long division of the limbs j, j-1, .. 1 of a by n, a limb at a time where
\* the remainder and a limb fit an int together
RECURSIVE WideDivFrom(_, _, _, _, _)
WideDivFrom(a, n, j, q, r) ==
    IF j = 0 THEN <<q, r>>
    ELSE LET x == r * Limb + a[j]
             s == IF n <= Limb THEN <<x \div n, x % n>>
                  ELSE LimbDivFrom(a[j], n, 14, 0, r)
         IN  WideDivFrom(a, n, j - 1, [q EXCEPT ![j] = s[1]], s[2])

\* <<a div n, a mod n>> for an int 0 < n <= 2^30
WideDivInt(a, n) == WideDivFrom(a, n, 8, WideZero, 0)

\* the float of sign neg nearest to (a + f) * 2^e, where 0 < f < 1 if sticky
\* and f = 0 if not (sticky only with a of more than 54 bits): a rounded to
\* 53 bits, ties to even
Round(neg, a, e, sticky) ==
    LET d == WideBits(a) - 53
    IN  IF a = WideZero THEN [neg |-> FALSE, mant |-> <<0, 0, 0, 0>>, exp |-> 0]
        ELSE IF d <= 0
        THEN [neg |-> neg, mant |-> SubSeq(WideShiftLeft(a, -d), 1, 4), exp |-> e + d]
        ELSE LET kept == WideShiftRight(a, d)
                 guard == WideBit(a, d - 1) = 1
                 rest == sticky \/ WideLowBits(a, d - 1)
                 odd == kept[1] % 2 = 1
                 up == guard /\ (rest \/ odd)
                 m == IF up THEN WideAdd(kept, WideOfInt(1)) ELSE kept
             IN  IF WideBits(m) = 54
                 THEN [neg |-> neg, mant |-> SubSeq(WideShiftRight(m, 1), 1, 4),
                       exp |-> e + d + 1]
                 ELSE [neg |-> neg, mant |-> SubSeq(m, 1, 4), exp |-> e + d]

\* float(k) of an int k
FInt(k) == Round(k < 0, WideOfInt(Abs(k)), 0, FALSE)

FZero == FInt(0)

FNeg(a) == IF a = FZero THEN a ELSE [a EXCEPT !.neg = ~a.neg]

FAbs(a) == [a EXCEPT !.neg = FALSE]

\* a + b for a.exp >= b.exp, neither zero: beyond 64 bits of distance b is
\* below a quarter of the last bit of a
FAddOrdered(a, b) ==
    IF a.exp - b.exp > 64 THEN a
    ELSE LET x == WideShiftLeft(Widen(a.mant), a.exp - b.exp)
             y == Widen(b.mant)
         IN  IF a.neg = b.neg THEN Round(a.neg, WideAdd(x, y), b.exp, FALSE)
             ELSE IF WideLess(x, y) THEN Round(b.neg, WideSub(y, x), b.exp, FALSE)
             ELSE Round(a.neg, WideSub(x, y), b.exp, FALSE)

\* a + b
FAdd(a, b) ==
    CASE a = FZero -> b
      [] b = FZero -> a
      [] a.exp >= b.exp -> FAddOrdered(a, b)
      [] OTHER -> FAddOrdered(b, a)

\* a - b
FSub(a, b) == FAdd(a, FNeg(b))

\* a / n for an int 0 < n < 2^30: the quotient is taken to 55 bits or more
\* before it is rounded
FDivInt(a, n) ==
    LET s == BitLen(n) + 2
        qr == WideDivInt(WideShiftLeft(Widen(a.mant), s), n)
    IN  Round(a.neg, qr[1], a.exp - s, qr[2] # 0)

\* (c / 2) * a for an int c: the product of a with a half-integer
FMulHalves(c, a) ==
    Round((c < 0) # a.neg, WideMulInt(Widen(a.mant), Abs(c)), a.exp - 1, FALSE)

\* a < b for a, b >= 0
FLessMagnitude(a, b) ==
    CASE b = FZero -> FALSE
      [] a = FZero -> TRUE
      [] a.exp # b.exp -> a.exp < b.exp
      [] OTHER -> WideLess(Widen(a.mant), Widen(b.mant))

\* a <= b
FLeq(a, b) ==
    CASE a.neg /\ ~b.neg -> TRUE
      [] ~a.neg /\ b.neg -> FALSE
      [] a.neg /\ b.neg -> ~FLessMagnitude(FAbs(a), FAbs(b))
      [] OTHER -> ~FLessMagnitude(b, a)

(***************************************************************************)
(* Datasets and the inputs the calls are tried on.                         *)
(***************************************************************************)
AllColumns == <<"Category", "Values1", "Values2", "Values3", "Values4", "Values5">>

\* dtype of a column: the Values columns hold numbers, Category holds strings
IsNumeric(c) == c \in {"Values1", "Values2", "Values3", "Values4", "Values5"}

\* datasets of no column, of the Category column alone, and of MaxCols columns
ColumnLists == {SubSeq(AllColumns, 1, n) : n \in {0, 1, MaxCols}}

\* row counts: an empty table and one of MaxRows rows
RowCounts == {0, MaxRows}

Range(s) == {s[i] : i \in DOMAIN s}

\* `data` arguments: a DataFrame (its columns have one length), a dict from
\* column name to a sequence of some length, a list, a string
DataInputs ==
    {[type |-> "DataFrame", columns |-> cs, lens |-> [i \in DOMAIN cs |-> n]] :
        cs \in ColumnLists, n \in RowCounts}
    \cup UNION {{[type |-> "dict", columns |-> cs, lens |-> l] :
                    l \in [DOMAIN cs -> RowCounts]} : cs \in ColumnLists}
    \cup {[type |-> t, columns |-> <<>>, lens |-> <<>>] : t \in {"list", "str"}}

LabelInputs == {None, "My"}
\* set_labels arguments: each omitted or given, or each omitted or empty
SetLabelInputs ==
    [title : {None, "Set"}, x_label : {None, "Set"}, y_label : {None, "Set"}]
    \cup [title : {None, ""}, x_label : {None, ""}, y_label : {None, ""}]
ColorInputs == {[given |-> FALSE, map |-> {}],
                [given |-> TRUE, map |-> {<<"Values1", "blue">>}]}
XNames == {"Category", "Missing"}
YNames == {"Values1", "Values2", "Missing"}
Paths == {[name |-> "out.png", writable |-> TRUE],
          [name |-> "/missing_dir/out.png", writable |-> FALSE]}

NoData == [columns |-> <<>>, nrows |-> 0]

(***************************************************************************)
(* Plot.__init__ and Plot._validate_data                                   *)
(***************************************************************************)
\* pd.DataFrame(dict) raises ValueError unless all sequences have one length
EqualLengths(d) == \A i, j \in DOMAIN d.lens : d.lens[i] = d.lens[j]

\* mutant: no type check, pd.DataFrame(data) is tried on any input
ValidateRaisesUnchecked(d) == d.type = "dict" /\ ~EqualLengths(d)

ValidateRaises(d) ==
    CASE d.type = "DataFrame" -> FALSE
      [] d.type = "dict" -> ~EqualLengths(d)
      [] OTHER -> TRUE

ValidateData(d) ==
    [columns |-> d.columns,
     nrows |-> IF d.columns = <<>> THEN 0 ELSE d.lens[1]]

Construct ==
    /\ built = "new"
    /\ \E d \in DataInputs, t \in LabelInputs, xl \in LabelInputs,
          yl \in LabelInputs, cs \in ColorInputs :
        /\ call' = [op |-> "init", data |-> d, title |-> t, x_label |-> xl,
                    y_label |-> yl, color_scheme |-> cs]
        /\ IF ValidateRaises(d)
           THEN /\ built' = "failed"
                /\ result' = "ValueError"
                /\ UNCHANGED <<data, fig, title, x_label, y_label, color_scheme>>
           ELSE /\ built' = "built"
                /\ result' = "self"
                /\ data' = ValidateData(d)
                /\ fig' = 1
                /\ title' = t
                /\ x_label' = xl
                /\ y_label' = yl
                /\ color_scheme' = IF cs.given /\ cs.map # {} THEN cs.map ELSE {}
    /\ UNCHANGED <<kind, axLabels, axDrawn, layouts, files, ncalls>>

(***************************************************************************)
(* Plot.set_labels, Plot.show, Plot.save                                   *)
(***************************************************************************)
\* mutant: `if label is not None`, so an empty string is written
ApplyLabelNotNone(cur, new) == IF new # None THEN new ELSE cur

\* `if label: self.ax.set_...(label)`
ApplyLabel(cur, new) == IF Truthy(new) THEN new ELSE cur

set_labels(t, xl, yl) ==
    /\ axTitle' = ApplyLabel(axTitle, t)
    /\ axXLabel' = ApplyLabel(axXLabel, xl)
    /\ axYLabel' = ApplyLabel(axYLabel, yl)

CanCall == built = "built" /\ ncalls < MaxCalls

SetLabels ==
    /\ CanCall
    /\ \E a \in SetLabelInputs :
        /\ call' = [op |-> "set_labels", title |-> a.title, x_label |-> a.x_label,
                    y_label |-> a.y_label]
        /\ set_labels(a.title, a.x_label, a.y_label)
    /\ result' = "self"
    /\ ncalls' = ncalls + 1
    /\ UNCHANGED <<specFields, axDrawn, layouts, files>>

Show ==
    /\ CanCall
    /\ call' = [op |-> "show"]
    /\ layouts' = layouts + 1
    /\ result' = "self"
    /\ ncalls' = ncalls + 1
    /\ UNCHANGED <<specFields, axLabels, axDrawn, files>>

\* mutant: a failed savefig leaves a cleared figure behind
SaveClearsOnError ==
    /\ CanCall
    /\ \E p \in Paths :
        /\ call' = [op |-> "save", filename |-> p]
        /\ IF p.writable
           THEN files' = files \cup {p.name} /\ result' = "self"
                /\ UNCHANGED <<axLabels, axDrawn>>
           ELSE files' = files /\ result' = "OSError"
                /\ axArtists' = <<>> /\ axLegend' = <<>>
                /\ axTitle' = "" /\ axXLabel' = "" /\ axYLabel' = ""
                /\ UNCHANGED <<axXTicks, axXTickLabels, axYTicks, axYTickLabels,
                               colorbars>>
    /\ ncalls' = ncalls + 1
    /\ UNCHANGED <<specFields, layouts>>

Save ==
    /\ CanCall
    /\ \E p \in Paths :
        /\ call' = [op |-> "save", filename |-> p]
        /\ IF p.writable
           THEN files' = files \cup {p.name} /\ result' = "self"
           ELSE files' = files /\ result' = "OSError"
    /\ ncalls' = ncalls + 1
    /\ UNCHANGED <<specFields, axLabels, axDrawn, layouts>>

(***************************************************************************)
(* Helpers of the draw operations.                                         *)
(***************************************************************************)
\* the lists of at most n distinct elements of S
SeqsUpTo(S, n) ==
    {l \in UNION {[1..k -> S] : k \in 0..n} :
        \A i, j \in DOMAIN l : l[i] = l[j] => i = j}

\* y_cols arguments: one column name as a string, or a list of names
YColInputs ==
    {[type |-> "str", s |-> c] : c \in YNames}
    \cup {[type |-> "list", items |-> l] : l \in SeqsUpTo(YNames, MaxYCols)}

\* **kwargs as a set of <<key, value>> pairs
KwargsHas(kw, key) == \E p \in kw : p[1] = key
KwargsGet(kw, key, default) ==
    IF KwargsHas(kw, key) THEN (CHOOSE p \in kw : p[1] = key)[2] ELSE default

\* no kwargs, or width=0.25
BarKwargs == {{}, {<<"width", FDivInt(FInt(1), 4)>>}}
HeatmapKwargs == {{}, {<<"cmap", "viridis">>}}
BinInputs == {10, 5}

\* self.data[c] raises KeyError unless c is a column
HasCol(c) == c \in Range(data.columns)

\* `[y_cols] if isinstance(y_cols, str) else y_cols`
NormalizeYCols(y) == IF y.type = "str" THEN <<y.s>> ELSE y.items

\* index of the first loop iteration that raises (bad: those that would), 0 if
\* none does
FirstBad(bad) ==
    IF bad = {} THEN 0 ELSE CHOOSE i \in bad : \A j \in bad : i <= j

\* ax.legend(): one entry per labelled artist on the axis
RECURSIVE Labels(_)
Labels(arts) ==
    IF arts = <<>> THEN <<>>
    ELSE IF arts[1].kind \in {"line", "bars"}
         THEN <<arts[1].label>> \o Labels(Tail(arts))
         ELSE Labels(Tail(arts))

Raise(e) ==
    /\ result' = e
    /\ UNCHANGED <<axLabels, axXTicks, axXTickLabels, axYTicks, axYTickLabels,
                   axLegend, colorbars>>

(***************************************************************************)
(* LinePlot.plot                                                           *)
(***************************************************************************)
LineArtist(x, c) == [kind |-> "line", x |-> x, y |-> c, label |-> c]

\* mutant: the axis is cleared before drawing
LineDrawClears(x, y) ==
    LET cols == NormalizeYCols(y)
        bad == {i \in DOMAIN cols : ~HasCol(x) \/ ~HasCol(cols[i])}
        stop == FirstBad(bad)
        done == IF stop = 0 THEN Len(cols) ELSE stop - 1
        arts == [i \in 1..done |-> LineArtist(x, cols[i])]
    IN  /\ axArtists' = arts
        /\ IF stop # 0
           THEN Raise("KeyError")
           ELSE /\ axLegend' = Labels(arts)
                /\ set_labels(Or(title, "Line Plot"), Or(x_label, x),
                              Or(y_label, "Values"))
                /\ result' = "self"
                /\ UNCHANGED <<axXTicks, axXTickLabels, axYTicks, axYTickLabels,
                               colorbars>>

LineDraw(x, y) ==
    LET cols == NormalizeYCols(y)
        bad == {i \in DOMAIN cols : ~HasCol(x) \/ ~HasCol(cols[i])}
        stop == FirstBad(bad)
        done == IF stop = 0 THEN Len(cols) ELSE stop - 1
        arts == axArtists \o [i \in 1..done |-> LineArtist(x, cols[i])]
    IN  /\ axArtists' = arts
        /\ IF stop # 0
           THEN Raise("KeyError")
           ELSE /\ axLegend' = Labels(arts)
                /\ set_labels(Or(title, "Line Plot"), Or(x_label, x),
                              Or(y_label, "Values"))
                /\ result' = "self"
                /\ UNCHANGED <<axXTicks, axXTickLabels, axYTicks, axYTickLabels,
                               colorbars>>

LinePlot ==
    /\ CanCall
    /\ kind = "line"
    /\ \E x \in XNames, y \in YColInputs :
        /\ call' = [op |-> "plot", x_col |-> x, y_cols |-> y, kwargs |-> {}]
        /\ LineDraw(x, y)
    /\ ncalls' = ncalls + 1
    /\ UNCHANGED <<specFields, layouts, files>>

(***************************************************************************)
(* BarPlot.plot                                                            *)
(***************************************************************************)
BarGroupWidth == FDivInt(FInt(4), 5)      \* the literal 0.8

\* `(i - len(y_cols) / 2) * width`, i counted from 0
BarOffset(i, n, width) == FMulHalves(2 * i - n, width)

\* ax.bar(x + offset, self.data[col], width, label=col): one container of
\* len(x) rectangles, rectangle k centred on x[k] + offset (align="center")
BarContainer(c, i, n, width) ==
    LET offset == BarOffset(i, n, width)
    IN  [kind |-> "bars", label |-> c,
         patches |-> [k \in 1..data.nrows |->
                        [tick |-> k - 1,
                         center |-> FAdd(FInt(k - 1), offset),
                         width |-> width]]]

BarDraw(x, y, kw) ==
    LET cols == NormalizeYCols(y)
        n == Len(cols)
    IN  IF ~HasCol(x)
        THEN axArtists' = axArtists /\ Raise("KeyError")
        ELSE IF n = 0
        THEN axArtists' = axArtists /\ Raise("ZeroDivisionError")
        ELSE
        LET width == KwargsGet(kw, "width", FDivInt(BarGroupWidth, n))
            bad == {i \in 1..n : ~HasCol(cols[i]) \/ KwargsHas(kw, "width")}
            stop == FirstBad(bad)
            done == IF stop = 0 THEN n ELSE stop - 1
            arts == axArtists
                    \o [i \in 1..done |-> BarContainer(cols[i], i - 1, n, width)]
        IN  /\ axArtists' = arts
            /\ IF stop # 0
               THEN Raise(IF ~HasCol(cols[stop]) THEN "KeyError" ELSE "TypeError")
               ELSE /\ axXTicks' = [k \in 1..data.nrows |-> k - 1]
                    /\ axXTickLabels' = [k \in 1..data.nrows |-> <<x, k - 1>>]
                    /\ axLegend' = Labels(arts)
                    /\ set_labels(Or(title, "Bar Plot"), Or(x_label, x),
                                  Or(y_label, "Values"))
                    /\ result' = "self"
                    /\ UNCHANGED <<axYTicks, axYTickLabels, colorbars>>

BarPlot ==
    /\ CanCall
    /\ kind = "bar"
    /\ \E x \in XNames, y \in YColInputs, kw \in BarKwargs :
        /\ call' = [op |-> "plot", x_col |-> x, y_cols |-> y, kwargs |-> kw]
        /\ BarDraw(x, y, kw)
    /\ ncalls' = ncalls + 1
    /\ UNCHANGED <<specFields, layouts, files>>

(***************************************************************************)
(* ScatterPlot.plot                                                        *)
(***************************************************************************)
ScatterPlot ==
    /\ CanCall
    /\ kind = "scatter"
    /\ \E x \in XNames, y \in YNames :
        /\ call' = [op |-> "plot", x_col |-> x, y_col |-> y, kwargs |-> {}]
        /\ IF ~HasCol(x) \/ ~HasCol(y)
           THEN axArtists' = axArtists /\ Raise("KeyError")
           ELSE /\ axArtists' = Append(axArtists, [kind |-> "scatter", x |-> x, y |-> y])
                /\ set_labels(Or(title, "Scatter Plot"), Or(x_label, x),
                              Or(y_label, y))
                /\ result' = "self"
                /\ UNCHANGED <<axXTicks, axXTickLabels, axYTicks, axYTickLabels,
                               axLegend, colorbars>>
    /\ ncalls' = ncalls + 1
    /\ UNCHANGED <<specFields, layouts, files>>

(***************************************************************************)
(* Histogram.plot                                                          *)
(***************************************************************************)
Histogram ==
    /\ CanCall
    /\ kind = "hist"
    /\ \E c \in XNames, bins \in BinInputs :
        /\ call' = [op |-> "plot", col |-> c, bins |-> bins, kwargs |-> {}]
        /\ IF ~HasCol(c)
           THEN axArtists' = axArtists /\ Raise("KeyError")
           ELSE /\ axArtists' = Append(axArtists, [kind |-> "hist", x |-> c, bins |-> bins])
                /\ set_labels(Or(title, "Histogram"), Or(x_label, c),
                              Or(y_label, "Frequency"))
                /\ result' = "self"
                /\ UNCHANGED <<axXTicks, axXTickLabels, axYTicks, axYTickLabels,
                               axLegend, colorbars>>
    /\ ncalls' = ncalls + 1
    /\ UNCHANGED <<specFields, layouts, files>>

(***************************************************************************)
(* Heatmap.plot                                                            *)
(***************************************************************************)
\* self.data.select_dtypes(include=[np.number]).columns
NumericColumns(d) == SelectSeq(d.columns, IsNumeric)

\* mutant: only the columns are counted
NumericEmptyNoColumns(d) == NumericColumns(d) = <<>>

\* DataFrame.empty: no columns or no rows
NumericEmpty(d) == NumericColumns(d) = <<>> \/ d.nrows = 0

Heatmap ==
    /\ CanCall
    /\ kind = "heatmap"
    /\ \E kw \in HeatmapKwargs :
        /\ call' = [op |-> "plot", kwargs |-> kw]
        /\ IF NumericEmpty(data)
           THEN axArtists' = axArtists /\ Raise("ValueError")
           ELSE LET cols == NumericColumns(data)
                    n == Len(cols)
                IN  /\ axArtists' = Append(axArtists,
                            [kind |-> "matshow", rows |-> n, cols |-> n,
                             cmap |-> KwargsGet(kw, "cmap", "coolwarm")])
                    /\ colorbars' = colorbars + 1
                    /\ axXTicks' = [k \in 1..n |-> k - 1]
                    /\ axYTicks' = [k \in 1..n |-> k - 1]
                    /\ axXTickLabels' = cols
                    /\ axYTickLabels' = cols
                    /\ set_labels(Or(title, "Heatmap"), None, None)
                    /\ result' = "self"
                    /\ UNCHANGED axLegend
    /\ ncalls' = ncalls + 1
    /\ UNCHANGED <<specFields, layouts, files>>

(***************************************************************************)
(* The builder: a subclass is chosen, constructed once, then called.       *)
(***************************************************************************)
Init ==
    /\ kind \in Kinds
    /\ built = "new"
    /\ data = NoData
    /\ title = None
    /\ x_label = None
    /\ y_label = None
    /\ color_scheme = {}
    /\ fig = 0
    /\ axTitle = ""
    /\ axXLabel = ""
    /\ axYLabel = ""
    /\ axArtists = <<>>
    /\ axXTicks = <<>>
    /\ axXTickLabels = <<>>
    /\ axYTicks = <<>>
    /\ axYTickLabels = <<>>
    /\ axLegend = <<>>
    /\ colorbars = 0
    /\ layouts = 0
    /\ files = {}
    /\ call = [op |-> "none"]
    /\ result = "none"
    /\ ncalls = 0

Next ==
    \/ Construct
    \/ SetLabels
    \/ Show
    \/ Save
    \/ LinePlot
    \/ BarPlot
    \/ ScatterPlot
    \/ Histogram
    \/ Heatmap

Spec == Init /\ [][Next]_vars

(***************************************************************************)
(* Vocabulary of the properties.                                           *)
(***************************************************************************)
\* the step is a call of `op` on the built builder
IsCall(op) == ncalls' = ncalls + 1 /\ call'.op = op

\* the labels a caller passes in this model; no default is one of them
UserLabels == {"My", "Set"}

\* the artists a step added to the axis
NewArtists == SubSeq(axArtists', Len(axArtists) + 1, Len(axArtists'))

\* the y columns of a Line or Bar call, a single string counting as one
YColumnsOf(c) == IF c.y_cols.type = "str" THEN <<c.y_cols.s>> ELSE c.y_cols.items

InData(c) == \E i \in DOMAIN data.columns : data.columns[i] = c

\* the columns a draw call refers to
ReferencedColumns(k, c) ==
    CASE k \in {"line", "bar"} -> {c.x_col} \cup Range(YColumnsOf(c))
      [] k = "scatter" -> {c.x_col, c.y_col}
      [] k = "hist" -> {c.col}
      [] OTHER -> {}

(***************************************************************************)
(* C1: a draw writes a default title / x-label / y-label only when that    *)
(* label was never set to a non-empty value, at construction or by an      *)
(* earlier SetLabels; a label the caller has set is never replaced on the  *)
(* surface by a default.  Stated per draw step: the draw changes a surface *)
(* label to a value the caller did not give only if the field is unset and *)
(* the surface does not hold a caller's label.                             *)
(***************************************************************************)
DefaultOnlyIfUnset(field, cur, new) ==
    (new # cur /\ new \notin UserLabels) => (~Truthy(field) /\ cur \notin UserLabels)

C1_DefaultsNeverReplaceSetLabels ==
    [][IsCall("plot") =>
        /\ DefaultOnlyIfUnset(title, axTitle, axTitle')
        /\ DefaultOnlyIfUnset(x_label, axXLabel, axXLabel')
        /\ DefaultOnlyIfUnset(y_label, axYLabel, axYLabel')]_vars

(***************************************************************************)
(* C2: a Bar draw with N y-columns over K categories and the default width *)
(* adds N*K bars, each of width 0.8/N; at every tick k the N bars are      *)
(* placed symmetrically about k and no two of them overlap.  Symmetry and  *)
(* overlap are judged up to the rounding of the float arithmetic.          *)
(***************************************************************************)
\* the edges of a drawn rectangle: matplotlib puts its left edge at
\* center - width / 2 and its right edge at left + width
Left(b) == FSub(b.center, FMulHalves(1, b.width))
Right(b) == FAdd(Left(b), b.width)

\* rounding error of the float arithmetic is not held against the claim:
\* positions are compared up to 2^-15
Tolerance == FDivInt(FInt(1), 2^15)
Near(a, b) == FLeq(FAbs(FSub(a, b)), Tolerance)
NotRightOf(a, b) == FLeq(a, FAdd(b, Tolerance))

C2_BarsSymmetricAboutTicks ==
    [][(IsCall("plot") /\ kind = "bar" /\ result' = "self"
            /\ ~KwargsHas(call'.kwargs, "width")) =>
        LET n == Len(YColumnsOf(call'))
            new == NewArtists
        IN  /\ Len(new) = n
            /\ \A i \in 1..n :
                /\ new[i].kind = "bars"
                /\ Len(new[i].patches) = data.nrows
                /\ \A k \in 1..data.nrows :
                    /\ new[i].patches[k].width = FDivInt(FDivInt(FInt(4), 5), n)
                    \* bar i mirrors bar n+1-i about the tick
                    /\ Near(FAdd(Left(new[i].patches[k]), Right(new[n + 1 - i].patches[k])),
                            FInt(2 * (k - 1)))
                    /\ \A j \in 1..n : i < j =>
                        \/ NotRightOf(Right(new[i].patches[k]), Left(new[j].patches[k]))
                        \/ NotRightOf(Right(new[j].patches[k]), Left(new[i].patches[k]))]_vars

(***************************************************************************)
(* C3: a Line, Bar, Scatter or Histogram draw that refers to a column the  *)
(* dataset lacks (as x column or as any y column) fails with               *)
(* ColumnNotFoundError (KeyError), and the title, x-label and y-label,     *)
(* fields and surface, are what they were before the call.                 *)
(***************************************************************************)
C3_MissingColumnFailsCleanly ==
    [][(IsCall("plot") /\ kind \in {"line", "bar", "scatter", "hist"}
            /\ \E c \in ReferencedColumns(kind, call') : ~InData(c)) =>
        /\ result' = "KeyError"
        /\ UNCHANGED <<title, x_label, y_label, axTitle, axXLabel, axYLabel>>]_vars

(***************************************************************************)
(* C4: construction succeeds exactly when data is a table or a mapping     *)
(* from column names to sequences of one length; the builder then holds    *)
(* that dataset, the labels as passed (unset when omitted), an empty color *)
(* map when none is passed, and a fresh surface; any other input fails     *)
(* with InvalidDataError (ValueError) and builds nothing.                  *)
(***************************************************************************)
Tabular(d) ==
    \/ d.type = "DataFrame"
    \/ d.type = "dict" /\ \A i \in DOMAIN d.lens : d.lens[i] = d.lens[1]

C4_ConstructionValidatesData ==
    call.op = "init" =>
        /\ (result = "self") <=> Tabular(call.data)
        /\ Tabular(call.data) =>
            /\ built = "built"
            /\ fig = 1
            /\ data.columns = call.data.columns
            /\ \A i \in DOMAIN call.data.lens : data.nrows = call.data.lens[i]
            /\ title = call.title /\ x_label = call.x_label /\ y_label = call.y_label
            /\ ~call.color_scheme.given => color_scheme = {}
            /\ call.color_scheme.given => color_scheme = call.color_scheme.map
            /\ axTitle = "" /\ axXLabel = "" /\ axYLabel = "" /\ axArtists = <<>>
        /\ ~Tabular(call.data) =>
            /\ result = "ValueError"
            /\ built = "failed"
            /\ fig = 0

C4_Witness ==
    /\ call.op = "init"
    /\ call.data.type = "list"
    /\ result = "ValueError"
    /\ built = "failed"

(***************************************************************************)
(* C5: SetLabels writes each non-empty argument to the surface and leaves  *)
(* the label of every omitted or empty argument as it was (so with all     *)
(* arguments omitted or empty nothing changes, and with only title "X"     *)
(* only the title changes); it returns the builder.                        *)
(***************************************************************************)
C5_SetLabelsFrame ==
    [][IsCall("set_labels") =>
        /\ axTitle' = IF call'.title \in {None, ""} THEN axTitle ELSE call'.title
        /\ axXLabel' = IF call'.x_label \in {None, ""} THEN axXLabel ELSE call'.x_label
        /\ axYLabel' = IF call'.y_label \in {None, ""} THEN axYLabel ELSE call'.y_label
        /\ result' = "self"
        /\ UNCHANGED <<specFields, axDrawn>>]_vars

C5_Witness ==
    /\ call.op = "set_labels"
    /\ call.title = "Set" /\ call.x_label = None /\ call.y_label = None
    /\ axTitle = "Set"
    /\ axXLabel = "Category"
    /\ axYLabel = "Values"
    /\ result = "self"

(***************************************************************************)
(* C6 as claimed: a Heatmap draw fails with NoNumericDataError             *)
(* (ValueError) when the dataset has no numeric column, drawing nothing    *)
(* and leaving the title; on every dataset with n >= 2 numeric columns it  *)
(* succeeds, renders an n x n grid whose tick labels on both axes are the  *)
(* numeric column names, applies the title (default "Heatmap") and writes  *)
(* no x/y axis label.                                                      *)
(***************************************************************************)
NumericNames == SelectSeq(data.columns, IsNumeric)

HeatmapFails ==
    /\ result' = "ValueError"
    /\ UNCHANGED <<axLabels, axDrawn>>

HeatmapRenders ==
    LET n == Len(NumericNames)
    IN  /\ result' = "self"
        /\ Len(NewArtists) = 1
        /\ NewArtists[1].kind = "matshow"
        /\ NewArtists[1].rows = n /\ NewArtists[1].cols = n
        /\ axArtists' = axArtists \o NewArtists
        /\ axXTickLabels' = NumericNames /\ axYTickLabels' = NumericNames
        /\ Len(axXTicks') = n /\ Len(axYTicks') = n
        /\ axTitle' = IF title \in {None, ""} THEN "Heatmap" ELSE title
        /\ axXLabel' = axXLabel /\ axYLabel' = axYLabel

C6_HeatmapOnEveryNumericDataset ==
    [][(IsCall("plot") /\ kind = "heatmap") =>
        /\ Len(NumericNames) = 0 => HeatmapFails
        /\ Len(NumericNames) >= 2 => HeatmapRenders]_vars

(***************************************************************************)
(* C6 as amended: the draw fails with NoNumericDataError when the dataset  *)
(* has no numeric column or no row, drawing nothing and leaving the title; *)
(* on every dataset with n >= 2 numeric columns and at least one row it    *)
(* succeeds as claimed.                                                    *)
(***************************************************************************)
C6_HeatmapOnNonEmptyNumericData ==
    [][(IsCall("plot") /\ kind = "heatmap") =>
        /\ (Len(NumericNames) = 0 \/ data.nrows = 0) => HeatmapFails
        /\ (Len(NumericNames) >= 2 /\ data.nrows >= 1) => HeatmapRenders]_vars

C6_Witness ==
    /\ kind = "heatmap"
    /\ call.op = "plot"
    /\ result = "self"
    /\ Len(axArtists) = 1
    /\ axArtists[1].rows >= 2
    /\ axTitle = "Heatmap"
    /\ axXTickLabels = <<"Values1", "Values2">>

(***************************************************************************)
(* C7: Show and Save may be called any number of times in any order: Show  *)
(* and a Save to a writable path return the builder, a Save to an          *)
(* unwritable path raises the IO error (OSError), and in every case the    *)
(* dataset, the title and labels, the drawn artifacts and the figure/axis  *)
(* handle are unchanged and the builder stays usable.                      *)
(***************************************************************************)
C7_ShowSaveFrame ==
    [][(IsCall("show") \/ IsCall("save")) =>
        /\ result' = IF call'.op = "save" /\ ~call'.filename.writable
                     THEN "OSError" ELSE "self"
        /\ UNCHANGED <<data, title, x_label, y_label, color_scheme, fig, built,
                       axLabels, axDrawn>>
        /\ built' = "built" /\ fig' = 1]_vars

C7_Witness ==
    /\ call.op = "save"
    /\ ~call.filename.writable
    /\ result = "OSError"
    /\ ncalls = 2
    /\ axArtists # <<>>
    /\ axTitle # ""

(***************************************************************************)
(* C8: a Bar draw given an explicit bar width w among its kwargs (its      *)
(* columns present) succeeds and uses w as the width of every bar and as   *)
(* the unit of the per-column offsets.                                     *)
(***************************************************************************)
C8_ExplicitBarWidthUsed ==
    [][(IsCall("plot") /\ kind = "bar" /\ KwargsHas(call'.kwargs, "width")
            /\ YColumnsOf(call') # <<>>
            /\ \A c \in ReferencedColumns(kind, call') : InData(c)) =>
        LET n == Len(YColumnsOf(call'))
            w == KwargsGet(call'.kwargs, "width", FInt(0))
        IN  /\ result' = "self"
            /\ Len(NewArtists) = n
            /\ \A i \in 1..n : \A k \in 1..data.nrows :
                /\ NewArtists[i].patches[k].width = w
                /\ NewArtists[i].patches[k].center
                     = FAdd(FInt(k - 1), FMulHalves(2 * (i - 1) - n, w))]_vars

(***************************************************************************)
(* C9: draws accumulate on the one axis: a successful Line draw adds one   *)
(* series per y-column of the call (a single string counting as one        *)
(* column) after the artists already there, removes and replaces none, and *)
(* returns the builder.                                                    *)
(***************************************************************************)
C9_LineDrawsAccumulate ==
    [][(IsCall("plot") /\ kind = "line"
            /\ (result' = "self" \/ \A c \in ReferencedColumns(kind, call') : InData(c))) =>
        LET cols == YColumnsOf(call')
        IN  /\ result' = "self"
            /\ Len(axArtists') = Len(axArtists) + Len(cols)
            /\ SubSeq(axArtists', 1, Len(axArtists)) = axArtists
            /\ \A i \in 1..Len(cols) :
                /\ NewArtists[i].kind = "line"
                /\ NewArtists[i].x = call'.x_col
                /\ NewArtists[i].y = cols[i]
            /\ UNCHANGED <<fig, data>>]_vars

C9_Witness ==
    /\ kind = "line"
    /\ ncalls = 2
    /\ call.op = "plot"
    /\ call.y_cols.type = "str"
    /\ result = "self"
    /\ Len(axArtists) = 3
    /\ axLegend = <<"Values1", "Values2", "Values1">>

(***************************************************************************)
(* C10: a failed draw is all-or-nothing: when a Line or Bar draw raises    *)
(* because a y-column is absent (in any position) or because the y-column  *)
(* list is empty, the surface holds no artifact, tick or legend change     *)
(* from that call.  Stated on datasets of at least one row, where every    *)
(* series or bar group drawn has something to show.                        *)
(***************************************************************************)
C10_FailedDrawDrawsNothing ==
    [][(IsCall("plot") /\ kind \in {"line", "bar"} /\ data.nrows >= 1
            /\ result' \in {"KeyError", "ZeroDivisionError"}) =>
        UNCHANGED axDrawn]_vars

====
